---- MODULE Spec2Model ----
(***************************************************************************)
(* Model of src/index.tsx: the MarkdownResponse renderer (fence split,     *)
(* diff pairing, emphasis/list sub-segmentation) and the CodeAssistant     *)
(* mode dispatcher (handleSubmit, ModeButton, input edits).                *)
(*                                                                         *)
(* Strings that are parsed are sequences of one-character strings.         *)
(***************************************************************************)
EXTENDS Integers, Sequences, FiniteSets, TLC

VARIABLES
    \* --- MarkdownResponse (props and the element list of one render) ---
    content,            \* prop content
    originalCodeProp,   \* prop originalCode ("" = absent)
    languageProp,       \* prop language
    rendered,           \* elements returned by parts.map, in order
    phase,              \* "props" before the render, "rendered" after
    \* --- CodeAssistant state (useState cells) ---
    mode, language, code, userInput, response, isLoading, error,
    originalCodeForDiff,
    \* --- the handleSubmit invocation in flight ---
    job,                \* closure and locals of the pending handleSubmit
    consoleLog,         \* which function console.log is bound to
    \* --- history of the session, for stating properties ---
    lastOp,             \* the last event handled
    calls,              \* external calls issued by the latest dispatch
    switchedSinceSubmit, \* a mode switch happened after the latest submit
    requestLanguage     \* the language state when the latest request was built

renderVars == <<content, originalCodeProp, languageProp, rendered, phase>>
uiVars == <<mode, language, code, userInput, response, isLoading, error,
            originalCodeForDiff, job, consoleLog, lastOp, calls,
            switchedSinceSubmit, requestLanguage>>
vars == <<content, originalCodeProp, languageProp, rendered, phase,
          mode, language, code, userInput, response, isLoading, error,
          originalCodeForDiff, job, consoleLog, lastOp, calls,
          switchedSinceSubmit, requestLanguage>>

----------------------------------------------------------------------------
(* Characters *)

\* TICK stands for the backtick character (written ~ here)
TICK == "~"
NL == "\n"
SP == " "
STAR == "*"
DASH == "-"

PLUS == "+"

LowerLetters ==
    <<"a", "b", "c", "d", "e", "f", "g", "h", "i", "j", "k", "l", "m",
      "n", "o", "p", "q", "r", "s", "t", "u", "v", "w", "x", "y", "z">>
UpperLetters ==
    <<"A", "B", "C", "D", "E", "F", "G", "H", "I", "J", "K", "L", "M",
      "N", "O", "P", "Q", "R", "S", "T", "U", "V", "W", "X", "Y", "Z">>

\* the class [a-zA-Z]
Alpha == {LowerLetters[i] : i \in DOMAIN LowerLetters}
         \cup {UpperLetters[i] : i \in DOMAIN UpperLetters}
IsAlpha(c) == c \in Alpha
Whitespace == {" ", "\n", "\t"}
IsSpace(c) == c \in Whitespace

FENCE == <<TICK, TICK, TICK>>

MinOf(S) == CHOOSE x \in S : \A y \in S : x <= y

RECURSIVE Concat(_)
Concat(ss) == IF ss = <<>> THEN <<>> ELSE Head(ss) \o Concat(Tail(ss))

----------------------------------------------------------------------------
(* String primitives used by the renderer *)

StartsWith(s, p) == Len(s) >= Len(p) /\ SubSeq(s, 1, Len(p)) = p
EndsWith(s, p) == Len(s) >= Len(p) /\ SubSeq(s, Len(s) - Len(p) + 1, Len(s)) = p

\* String.prototype.trim
Trim(s) ==
    LET keep == {i \in 1..Len(s) : ~IsSpace(s[i])}
    IN IF keep = {} THEN <<>>
       ELSE SubSeq(s, MinOf(keep), CHOOSE x \in keep : \A y \in keep : y <= x)

\* String.prototype.slice(2, -2)
Slice2(s) == IF Len(s) - 2 > 2 THEN SubSeq(s, 3, Len(s) - 2) ELSE <<>>

\* String.prototype.substring(2)
Substring2(s) == SubSeq(s, 3, Len(s))

\* first index >= p whose character is not a letter (Len(s)+1 if none)
AlphaRunEnd(s, p) ==
    LET stop == {i \in p..Len(s) : ~IsAlpha(s[i])}
    IN IF stop = {} THEN Len(s) + 1 ELSE MinOf(stop)

----------------------------------------------------------------------------
(* content.split(/(~~~(?:[a-zA-Z]*\n)?[\s\S]*?~~~)/g).filter(Boolean) *)

FenceAt(s, i) ==
    /\ i >= 1
    /\ i + 2 <= Len(s)
    /\ s[i] = TICK /\ s[i + 1] = TICK /\ s[i + 2] = TICK

\* least index >= from where ~~~ starts, 0 if none
FirstFence(s, from) ==
    LET C == {i \in from..(Len(s) - 2) : FenceAt(s, i)}
    IN IF C = {} THEN 0 ELSE MinOf(C)

\* position after the optional group (?:[a-zA-Z]*\n)? tried at p
TagLineEnd(s, p) ==
    LET e == AlphaRunEnd(s, p)
    IN IF e <= Len(s) /\ s[e] = NL THEN e + 1 ELSE p

\* last index of the regex match that starts at the fence at i, 0 if none:
\* first with the optional group taken, then (backtracking) without it
FenceMatchEnd(s, i) ==
    LET j1 == FirstFence(s, TagLineEnd(s, i + 3))
        j0 == FirstFence(s, i + 3)
    IN IF j1 # 0 THEN j1 + 2 ELSE IF j0 # 0 THEN j0 + 2 ELSE 0

\* leftmost match at or after from: <<start, end>>, <<0, 0>> if none
NextFenceMatch(s, from) ==
    LET C == {i \in from..(Len(s) - 2) : FenceAt(s, i) /\ FenceMatchEnd(s, i) # 0}
    IN IF C = {} THEN <<0, 0>> ELSE <<MinOf(C), FenceMatchEnd(s, MinOf(C))>>

\* variant: the pattern without its capturing group, the matches are not kept
RECURSIVE SplitFences_NoCapture(_, _)
SplitFences_NoCapture(s, from) ==
    LET m == NextFenceMatch(s, from)
    IN IF m[1] = 0 THEN <<SubSeq(s, from, Len(s))>>
       ELSE <<SubSeq(s, from, m[1] - 1)>> \o SplitFences_NoCapture(s, m[2] + 1)

\* String.prototype.split with a capturing group: text, match, text, ...
RECURSIVE SplitFences(_, _)
SplitFences(s, from) ==
    LET m == NextFenceMatch(s, from)
    IN IF m[1] = 0 THEN <<SubSeq(s, from, Len(s))>>
       ELSE <<SubSeq(s, from, m[1] - 1), SubSeq(s, m[1], m[2])>>
            \o SplitFences(s, m[2] + 1)

FilterBoolean(ss) == SelectSeq(ss, LAMBDA x : x # <<>>)

Parts(c) == FilterBoolean(SplitFences(c, 1))

----------------------------------------------------------------------------
(* A code part: language tag and body *)

\* variant: the newline after the tag is required by the pattern
StripOpen_RequiresNewline(part) ==
    IF ~StartsWith(part, FENCE) THEN part
    ELSE LET e == AlphaRunEnd(part, 4)
         IN IF e <= Len(part) /\ part[e] = NL
            THEN SubSeq(part, e + 1, Len(part)) ELSE part

\* part.replace(/^~~~[a-zA-Z]*\n?/, "")
StripOpen(part) ==
    IF ~StartsWith(part, FENCE) THEN part
    ELSE LET e == AlphaRunEnd(part, 4)
             r == IF e <= Len(part) /\ part[e] = NL THEN e + 1 ELSE e
         IN SubSeq(part, r, Len(part))

\* .replace(/~~~$/, "")
StripClose(s) == IF EndsWith(s, FENCE) THEN SubSeq(s, 1, Len(s) - 3) ELSE s

\* variant: the closing fence is not removed
CodeOf_KeepsClose(part) == Trim(StripOpen(part))

CodeOf(part) == Trim(StripClose(StripOpen(part)))

\* part.match(/^~~~([a-zA-Z]*)/)?.[1] || ""
LangOf(part) ==
    IF StartsWith(part, FENCE) THEN SubSeq(part, 4, AlphaRunEnd(part, 4) - 1)
    ELSE <<>>

----------------------------------------------------------------------------
(* A non-code part: the split on the emphasis pattern and its map *)

StarsAt(s, i) == i >= 1 /\ i + 1 <= Len(s) /\ s[i] = STAR /\ s[i + 1] = STAR

\* last index of the match of the emphasis pattern (two stars, lazily any
\* characters but newline, two stars) starting at i, 0 if none
EmphMatchEnd(s, i) ==
    LET C == {j \in (i + 2)..(Len(s) - 1) :
                 /\ StarsAt(s, j)
                 /\ \A k \in (i + 2)..(j - 1) : s[k] # NL}
    IN IF C = {} THEN 0 ELSE MinOf(C) + 1

NextEmphMatch(s, from) ==
    LET C == {i \in from..(Len(s) - 1) : StarsAt(s, i) /\ EmphMatchEnd(s, i) # 0}
    IN IF C = {} THEN <<0, 0>> ELSE <<MinOf(C), EmphMatchEnd(s, MinOf(C))>>

RECURSIVE SplitEmph(_, _)
SplitEmph(s, from) ==
    LET m == NextEmphMatch(s, from)
    IN IF m[1] = 0 THEN <<SubSeq(s, from, Len(s))>>
       ELSE <<SubSeq(s, from, m[1] - 1), SubSeq(s, m[1], m[2])>>
            \o SplitEmph(s, m[2] + 1)

\* String.prototype.split("\n")
RECURSIVE SplitLines(_)
SplitLines(s) ==
    LET C == {i \in 1..Len(s) : s[i] = NL}
    IN IF C = {} THEN <<s>>
       ELSE <<SubSeq(s, 1, MinOf(C) - 1)>> \o SplitLines(SubSeq(s, MinOf(C) + 1, Len(s)))

IsBullet(t) == StartsWith(Trim(t), <<STAR, SP>>) \/ StartsWith(Trim(t), <<DASH, SP>>)

\* the <li> children of the <ul>: item.trim().substring(2) of the bullet lines
RECURSIVE ListItems(_)
ListItems(lines) ==
    IF lines = <<>> THEN <<>>
    ELSE (IF IsBullet(Head(lines)) THEN <<Substring2(Trim(Head(lines)))>> ELSE <<>>)
         \o ListItems(Tail(lines))

\* one element of formattedPart
Piece(text) ==
    IF StartsWith(text, <<STAR, STAR>>) /\ EndsWith(text, <<STAR, STAR>>)
    THEN [kind |-> "strong", src |-> text, text |-> Slice2(text), items |-> <<>>]
    ELSE IF IsBullet(text)
    THEN [kind |-> "ul", src |-> text, text |-> <<>>,
          items |-> ListItems(SplitLines(Trim(text)))]
    ELSE [kind |-> "span", src |-> text, text |-> text, items |-> <<>>]

FormattedPart(part) ==
    LET ps == SplitEmph(part, 1)
    IN [i \in 1..Len(ps) |-> Piece(ps[i])]

----------------------------------------------------------------------------
(* CodeBlock: the language handed to the read-only editor *)

LANGUAGES == <<"JavaScript", "TypeScript", "Python", "Java", "C++", "Go",
               "Rust", "HTML", "CSS", "SQL", "Shell">>

\* the characters of each label of LANGUAGES
Spelling ==
    [l \in {LANGUAGES[i] : i \in DOMAIN LANGUAGES} |->
        CASE l = "JavaScript" -> <<"J", "a", "v", "a", "S", "c", "r", "i", "p", "t">>
          [] l = "TypeScript" -> <<"T", "y", "p", "e", "S", "c", "r", "i", "p", "t">>
          [] l = "Python" -> <<"P", "y", "t", "h", "o", "n">>
          [] l = "Java" -> <<"J", "a", "v", "a">>
          [] l = "C++" -> <<"C", PLUS, PLUS>>
          [] l = "Go" -> <<"G", "o">>
          [] l = "Rust" -> <<"R", "u", "s", "t">>
          [] l = "HTML" -> <<"H", "T", "M", "L">>
          [] l = "CSS" -> <<"C", "S", "S">>
          [] l = "SQL" -> <<"S", "Q", "L">>
          [] l = "Shell" -> <<"S", "h", "e", "l", "l">>]

\* String.prototype.toLowerCase
ToLowerChar(c) ==
    IF \E i \in DOMAIN UpperLetters : UpperLetters[i] = c
    THEN LowerLetters[CHOOSE i \in DOMAIN UpperLetters : UpperLetters[i] = c]
    ELSE c
ToLowerCase(s) == [i \in 1..Len(s) |-> ToLowerChar(s[i])]

\* variant: the labels are compared without toLowerCase
NormalizedLanguage_CaseSensitive(lang) ==
    LET found == {i \in DOMAIN LANGUAGES : Spelling[LANGUAGES[i]] = lang}
    IN IF found = {} THEN "JavaScript" ELSE LANGUAGES[MinOf(found)]

\* LANGUAGES.find(l => l.toLowerCase() === lowerLang) || "JavaScript"
NormalizedLanguage(lang) ==
    LET lowerLang == ToLowerCase(lang)
        found == {i \in DOMAIN LANGUAGES :
                     ToLowerCase(Spelling[LANGUAGES[i]]) = lowerLang}
    IN IF found = {} THEN "JavaScript" ELSE LANGUAGES[MinOf(found)]

----------------------------------------------------------------------------
(* parts.map(...) of MarkdownResponse, with the flag diffHasBeenRendered *)

IsCodeBlock(part) == StartsWith(part, FENCE)

\* variant: the flag diffHasBeenRendered is not consulted
DiffCondition_NoFlag(part, originalCode, lang, diffHasBeenRendered) ==
    /\ IsCodeBlock(part)
    /\ originalCode # <<>>
    /\ lang # ""

\* variant: originalCode is not consulted
DiffCondition_NoOriginal(part, originalCode, lang, diffHasBeenRendered) ==
    /\ IsCodeBlock(part)
    /\ lang # ""
    /\ ~diffHasBeenRendered

\* the condition under which a part is rendered as CodeComparison
DiffCondition(part, originalCode, lang, diffHasBeenRendered) ==
    /\ IsCodeBlock(part)
    /\ originalCode # <<>>
    /\ lang # ""
    /\ ~diffHasBeenRendered

Element(part, originalCode, lang, diffHasBeenRendered) ==
    IF DiffCondition(part, originalCode, lang, diffHasBeenRendered)
    THEN [kind |-> "diff", src |-> part, lang |-> <<>>, code |-> CodeOf(part),
          original |-> originalCode, language |-> lang, pieces |-> <<>>]
    ELSE IF IsCodeBlock(part)
    THEN [kind |-> "code", src |-> part, lang |-> LangOf(part), code |-> CodeOf(part),
          original |-> <<>>, language |-> NormalizedLanguage(LangOf(part)),
          pieces |-> <<>>]
    ELSE [kind |-> "text", src |-> part, lang |-> <<>>, code |-> <<>>,
          original |-> <<>>, language |-> "", pieces |-> FormattedPart(part)]

RECURSIVE MapParts(_, _, _, _)
MapParts(parts, originalCode, lang, diffHasBeenRendered) ==
    IF parts = <<>> THEN <<>>
    ELSE LET el == Element(Head(parts), originalCode, lang, diffHasBeenRendered)
         IN <<el>> \o MapParts(Tail(parts), originalCode, lang,
                               diffHasBeenRendered \/ el.kind = "diff")

MarkdownResponse(c, originalCode, lang) == MapParts(Parts(c), originalCode, lang, FALSE)

----------------------------------------------------------------------------
(* Bounds and input sets *)

MaxTok == 5        \* tokens in a free-form response
MaxBlocks == 2     \* fenced blocks in a well-formed response

Tokens == {FENCE, <<TICK>>, <<"a">>, <<NL>>, <<SP>>, <<STAR, STAR>>}

TokenInputs ==
    {Concat(ts) : ts \in UNION {[1..n -> Tokens] : n \in 0..MaxTok}}

Texts == {<<>>, <<"a">>, <<"a", NL>>}
Tags == {<<"b">>, <<"j", "s">>}
Bodies == {<<>>, <<"a">>, <<SP, "a", NL>>, <<"a", NL, "a">>}

BlockOf(tag, body) == FENCE \o tag \o <<NL>> \o body \o FENCE

Blocks == {BlockOf(t, b) : t \in Tags, b \in Bodies}

RECURSIVE Docs(_)
Docs(n) ==
    IF n = 0 THEN Texts
    ELSE {d \o b \o t : d \in Docs(n - 1), b \in Blocks, t \in Texts}

FencedDocs == UNION {Docs(n) : n \in 1..MaxBlocks}

\* responses made of lines: bullets, plain text, blank lines
MaxLines == 4
Lines == {<<STAR, SP, "a">>, <<DASH, SP, "b">>, <<"a">>, <<>>}

RECURSIVE JoinLines(_)
JoinLines(ls) ==
    IF Len(ls) = 0 THEN <<>>
    ELSE IF Len(ls) = 1 THEN ls[1]
    ELSE ls[1] \o <<NL>> \o JoinLines(Tail(ls))

LineDocs ==
    {JoinLines(ls) : ls \in UNION {[1..n -> Lines] : n \in 1..MaxLines}}

\* one fenced block per tag written after the opening fence
TagSamples ==
    {<<>>, <<"g", "o">>, <<"G", "o">>, <<"G", "O">>, <<"c", "s", "s">>,
     <<"S", "q", "l">>, <<"j", "a", "v", "a">>, <<"x", "y">>,
     <<"c", PLUS, PLUS>>}
TagDocs == {BlockOf(t, <<"a">>) : t \in TagSamples}

\* the fence tag the prompt builders write for a language:
\* language.toLowerCase()
PromptTag(l) == ToLowerCase(Spelling[l])

\* responses that fence their code the way the prompts do
PromptDocs == {BlockOf(PromptTag(LANGUAGES[i]), <<"a">>) : i \in DOMAIN LANGUAGES}

Inputs == TokenInputs \cup FencedDocs \cup LineDocs \cup TagDocs \cup PromptDocs

----------------------------------------------------------------------------
(* CodeAssistant: catalogs *)

AiMode == {"ASSIST", "GENERATE", "DEBUG", "REFACTOR", "REVIEW",
           "GENERATE_DOCS", "GENERATE_TESTS", "ANALYZE_REPO"}

\* the languages the session selects among
LangChoices == {LANGUAGES[1], LANGUAGES[3]}

\* error === null
NoError == "null"

\* texts typed into the code editor
Codes == {<<>>, <<"a">>, <<"b">>}

\* texts typed into the description / URL field: "/" or slash-free runs
GoodUrl == <<"https:", "/", "/", "github.com", "/", "o", "/", "r">>
BadUrl == <<"https:", "/", "/", "example.com", "/", "not-github">>
OwnerOnlyUrl == <<"https:", "/", "/", "github.com", "/", "o">>
UserInputs == {<<>>, <<"fix">>, GoodUrl, BadUrl, OwnerOnlyUrl}

\* variant: the pattern asks for the host and one path segment only
GithubMatch_OwnerOnly(u) ==
    \E i \in 1..(Len(u) - 2) :
        /\ u[i] \in {"github.com", "www.github.com"}
        /\ u[i + 1] = "/"
        /\ u[i + 2] # "/"

\* userInput.match(/github\.com\/([^\/]+)\/([^\/]+)/)
GithubMatch(u) ==
    \E i \in 1..(Len(u) - 4) :
        /\ u[i] \in {"github.com", "www.github.com"}
        /\ u[i + 1] = "/"
        /\ u[i + 2] # "/"
        /\ u[i + 3] = "/"
        /\ u[i + 4] # "/"

\* modes whose input pane shows the code editor / the text field
HasCodeEditor(m) ==
    m \in {"ASSIST", "DEBUG", "REFACTOR", "REVIEW", "GENERATE_DOCS", "GENERATE_TESTS"}
HasTextField(m) == m \in {"ASSIST", "GENERATE", "ANALYZE_REPO"}

\* variant: the ASSIST case tests the code only
ValidationMessage_AssistCodeOnly(m, c, u) ==
    CASE m = "ASSIST" ->
           IF c = <<>>
           THEN "Please provide both code and a problem description." ELSE NoError
      [] m = "GENERATE" ->
           IF u = <<>>
           THEN "Please provide a description for the code to generate." ELSE NoError
      [] m = "DEBUG" ->
           IF c = <<>> THEN "Please provide code to debug." ELSE NoError
      [] m = "REFACTOR" ->
           IF c = <<>> THEN "Please provide code to refactor." ELSE NoError
      [] m = "REVIEW" ->
           IF c = <<>> THEN "Please provide code to review." ELSE NoError
      [] m = "GENERATE_DOCS" ->
           IF c = <<>>
           THEN "Please provide code to generate documentation for." ELSE NoError
      [] m = "GENERATE_TESTS" ->
           IF c = <<>> THEN "Please provide code to generate tests for." ELSE NoError
      [] m = "ANALYZE_REPO" ->
           IF u = <<>> THEN "Please provide a public GitHub repository URL."
           ELSE IF ~GithubMatch(u)
           THEN "Invalid GitHub repository URL. Use format: https://github.com/owner/repo"
           ELSE NoError

\* the guard of each case of handleSubmit: the message set, NoError if none
ValidationMessage(m, c, u) ==
    CASE m = "ASSIST" ->
           IF c = <<>> \/ u = <<>>
           THEN "Please provide both code and a problem description." ELSE NoError
      [] m = "GENERATE" ->
           IF u = <<>>
           THEN "Please provide a description for the code to generate." ELSE NoError
      [] m = "DEBUG" ->
           IF c = <<>> THEN "Please provide code to debug." ELSE NoError
      [] m = "REFACTOR" ->
           IF c = <<>> THEN "Please provide code to refactor." ELSE NoError
      [] m = "REVIEW" ->
           IF c = <<>> THEN "Please provide code to review." ELSE NoError
      [] m = "GENERATE_DOCS" ->
           IF c = <<>>
           THEN "Please provide code to generate documentation for." ELSE NoError
      [] m = "GENERATE_TESTS" ->
           IF c = <<>> THEN "Please provide code to generate tests for." ELSE NoError
      [] m = "ANALYZE_REPO" ->
           IF u = <<>> THEN "Please provide a public GitHub repository URL."
           ELSE IF ~GithubMatch(u)
           THEN "Invalid GitHub repository URL. Use format: https://github.com/owner/repo"
           ELSE NoError

\* the cases of handleSubmit that assign originalCode = code
RetainsOriginal(m) == m \in {"ASSIST", "DEBUG", "REFACTOR"}

\* results of the remote model: response.text
LlmTexts == {<<>>, <<"a">>, BlockOf(<<"j", "s">>, <<"b">>)}

\* the catch branch of generateContent: "Error: " + error.message
\* (the prefix is abbreviated to "E:")
LlmErrorText == <<"E", ":", SP, "m">>

\* what the submitted JavaScript printed through console.log
ExecOutputs == {<<>>, <<"a", NL>>}

\* the template returned when the local run completes; the label
\* "Execution Output:" is abbreviated to "E", the placeholder to "n"
ExecOutputText(output) ==
    <<STAR, STAR, "E", STAR, STAR, NL>> \o FENCE \o <<NL>>
    \o (IF output # <<>> THEN output ELSE <<"n">>) \o <<NL>> \o FENCE

MetaFetchErrors ==
    {"Failed to fetch repo metadata (status: 404). Check URL or API rate limits.",
     "Failed to fetch"}
ContentFetchErrors == {"Failed to download README content.", "Failed to fetch"}

NoCalls == [llm |-> 0, fetch |-> 0, exec |-> 0]

IdleJob == [pc |-> "idle", mode |-> "ASSIST", code |-> <<>>, originalCode |-> <<>>]

Op(name, m, c) == [op |-> name, mode |-> m, code |-> c]

----------------------------------------------------------------------------
(* MarkdownResponse as a component: one render of given props *)

InitProps ==
    /\ content \in Inputs
    /\ originalCodeProp \in {<<>>, <<"b">>}
    /\ languageProp \in {LANGUAGES[1]}
    /\ rendered = <<>>
    /\ phase = "props"

InitAssistant ==
    /\ mode = "ASSIST"
    /\ language = "JavaScript"
    /\ code = <<>>
    /\ userInput = <<>>
    /\ response = <<>>
    /\ isLoading = FALSE
    /\ error = NoError
    /\ originalCodeForDiff = <<>>
    /\ job = IdleJob
    /\ consoleLog = "host"
    /\ lastOp = Op("init", "ASSIST", <<>>)
    /\ calls = NoCalls
    /\ switchedSinceSubmit = FALSE
    /\ requestLanguage = "JavaScript"

Render ==
    /\ phase = "props"
    /\ rendered' = MarkdownResponse(content, originalCodeProp, languageProp)
    /\ phase' = "rendered"
    /\ UNCHANGED <<content, originalCodeProp, languageProp>>
    /\ UNCHANGED uiVars

----------------------------------------------------------------------------
(* CodeAssistant.handleSubmit *)

\* variant: the submit button is never disabled
SubmitEnabled_Always == TRUE

\* the submit button is disabled while isLoading
SubmitEnabled == ~isLoading

\* what every path of handleSubmit leaves alone
SubmitFrame ==
    /\ switchedSinceSubmit' = FALSE
    /\ requestLanguage' = language
    /\ UNCHANGED <<mode, language, code, userInput>>
    /\ UNCHANGED renderVars

\* variant: the top of handleSubmit does not clear the response
SubmitReset_KeepsResponse ==
    /\ response' = response
    /\ originalCodeForDiff' = <<>>
    /\ SubmitFrame

\* setResponse(""), setOriginalCodeForDiff("") at the top of handleSubmit,
\* not overwritten before the handler suspends or returns
SubmitReset ==
    /\ response' = <<>>
    /\ originalCodeForDiff' = <<>>
    /\ SubmitFrame

\* variant: the early return without setIsLoading(false)
SubmitInvalid_StaysLoading ==
    /\ SubmitEnabled
    /\ ValidationMessage(mode, code, userInput) # NoError
    /\ SubmitReset
    /\ error' = ValidationMessage(mode, code, userInput)
    /\ isLoading' = TRUE
    /\ job' = IdleJob
    /\ calls' = NoCalls
    /\ lastOp' = Op("submitInvalid", mode, code)
    /\ UNCHANGED consoleLog

\* a case whose guard fails: setError(message); setIsLoading(false); return
SubmitInvalid ==
    /\ SubmitEnabled
    /\ ValidationMessage(mode, code, userInput) # NoError
    /\ SubmitReset
    /\ error' = ValidationMessage(mode, code, userInput)
    /\ isLoading' = FALSE
    /\ job' = IdleJob
    /\ calls' = NoCalls
    /\ lastOp' = Op("submitInvalid", mode, code)
    /\ UNCHANGED consoleLog

\* the local run of debugAndExecuteCode applies: DEBUG with JavaScript
RunsLocally(m, l) == m = "DEBUG" /\ l = "JavaScript"

\* a case that awaits generateContent through one of the prompt builders
SubmitLlm ==
    /\ SubmitEnabled
    /\ ValidationMessage(mode, code, userInput) = NoError
    /\ mode # "ANALYZE_REPO"
    /\ ~RunsLocally(mode, language)
    /\ SubmitReset
    /\ error' = NoError
    /\ isLoading' = TRUE
    /\ job' = [pc |-> "llm", mode |-> mode, code |-> code,
               originalCode |-> IF RetainsOriginal(mode) THEN code ELSE <<>>]
    /\ calls' = [NoCalls EXCEPT !.llm = 1]
    /\ lastOp' = Op("submit", mode, code)
    /\ UNCHANGED consoleLog

\* DEBUG with JavaScript, new Function(code)() returns: console.log is put
\* back, the promise is already resolved and the continuation of
\* handleSubmit runs before any other event
SubmitDebugRuns(output) ==
    /\ SubmitEnabled
    /\ ValidationMessage(mode, code, userInput) = NoError
    /\ RunsLocally(mode, language)
    /\ SubmitFrame
    /\ error' = NoError
    /\ consoleLog' = consoleLog
    /\ originalCodeForDiff' = code
    /\ response' = ExecOutputText(output)
    /\ isLoading' = FALSE
    /\ job' = IdleJob
    /\ calls' = [NoCalls EXCEPT !.exec = 1]
    /\ lastOp' = Op("done", mode, code)

\* DEBUG with JavaScript, new Function(code)() throws: the catch block calls
\* generateContent; the assignment console.log = oldLog was skipped
SubmitDebugThrows ==
    /\ SubmitEnabled
    /\ ValidationMessage(mode, code, userInput) = NoError
    /\ RunsLocally(mode, language)
    /\ SubmitReset
    /\ error' = NoError
    /\ consoleLog' = "capture"
    /\ isLoading' = TRUE
    /\ job' = [pc |-> "llm", mode |-> mode, code |-> code, originalCode |-> code]
    /\ calls' = [NoCalls EXCEPT !.exec = 1, !.llm = 1]
    /\ lastOp' = Op("submit", mode, code)

\* ANALYZE_REPO with a matching URL: the metadata fetch is issued
SubmitRepo ==
    /\ SubmitEnabled
    /\ ValidationMessage(mode, code, userInput) = NoError
    /\ mode = "ANALYZE_REPO"
    /\ SubmitReset
    /\ error' = NoError
    /\ isLoading' = TRUE
    /\ job' = [pc |-> "fetchMeta", mode |-> mode, code |-> code, originalCode |-> <<>>]
    /\ calls' = [NoCalls EXCEPT !.fetch = 1]
    /\ lastOp' = Op("submit", mode, code)
    /\ UNCHANGED consoleLog

\* what a resumption of handleSubmit leaves alone
ResumeFrame ==
    /\ UNCHANGED <<mode, language, code, userInput, consoleLog,
                   switchedSinceSubmit, requestLanguage>>
    /\ UNCHANGED renderVars

\* the metadata fetch answers ok and its JSON parses: the content fetch is issued
FetchMetaOk ==
    /\ job.pc = "fetchMeta"
    /\ job' = [job EXCEPT !.pc = "fetchContent"]
    /\ calls' = [calls EXCEPT !.fetch = 2]
    /\ lastOp' = Op("fetched", job.mode, job.code)
    /\ UNCHANGED <<response, isLoading, error, originalCodeForDiff>>
    /\ ResumeFrame

\* variant: the inner catch sets the error and goes on to analyzeRepo
FetchFailed_CallsLlm(message) ==
    /\ error' = message
    /\ job' = [job EXCEPT !.pc = "llm"]
    /\ calls' = [calls EXCEPT !.llm = 1]
    /\ lastOp' = Op("fetchFailed", job.mode, job.code)
    /\ UNCHANGED <<response, isLoading, originalCodeForDiff>>
    /\ ResumeFrame

\* variant: the inner catch returns without setIsLoading(false)
FetchFailed_StaysBusy(message) ==
    /\ error' = message
    /\ isLoading' = isLoading
    /\ job' = IdleJob
    /\ lastOp' = Op("fetchFailed", job.mode, job.code)
    /\ UNCHANGED <<response, originalCodeForDiff, calls>>
    /\ ResumeFrame

\* the inner catch: setError(e.message); setIsLoading(false); return
FetchFailed(message) ==
    /\ error' = message
    /\ isLoading' = FALSE
    /\ job' = IdleJob
    /\ lastOp' = Op("fetchFailed", job.mode, job.code)
    /\ UNCHANGED <<response, originalCodeForDiff, calls>>
    /\ ResumeFrame

FetchMetaFail(message) ==
    /\ job.pc = "fetchMeta"
    /\ FetchFailed(message)

\* the content fetch answers ok: analyzeRepo calls generateContent
FetchContentOk ==
    /\ job.pc = "fetchContent"
    /\ job' = [job EXCEPT !.pc = "llm"]
    /\ calls' = [calls EXCEPT !.llm = 1]
    /\ lastOp' = Op("fetched", job.mode, job.code)
    /\ UNCHANGED <<response, isLoading, error, originalCodeForDiff>>
    /\ ResumeFrame

FetchContentFail(message) ==
    /\ job.pc = "fetchContent"
    /\ FetchFailed(message)

\* variant: the snapshot is read from the code input at completion
StoreResult_CurrentCode(result) ==
    /\ originalCodeForDiff' = IF RetainsOriginal(job.mode) THEN code ELSE <<>>
    /\ response' = result
    /\ isLoading' = FALSE
    /\ job' = IdleJob
    /\ lastOp' = Op("done", job.mode, job.code)
    /\ UNCHANGED <<error, calls>>
    /\ ResumeFrame

\* the tail of handleSubmit once the awaited result is there:
\* setOriginalCodeForDiff(originalCode); setResponse(result); finally
StoreResult(result) ==
    /\ originalCodeForDiff' = job.originalCode
    /\ response' = result
    /\ isLoading' = FALSE
    /\ job' = IdleJob
    /\ lastOp' = Op("done", job.mode, job.code)
    /\ UNCHANGED <<error, calls>>
    /\ ResumeFrame

\* generateContent returns response.text
LlmReturn(text) ==
    /\ job.pc = "llm"
    /\ StoreResult(text)

\* variant: generateContent rethrows and the outer catch of handleSubmit
\* runs: setError(e.message); setResponse(""); finally
LlmFail_Throws ==
    /\ job.pc = "llm"
    /\ error' = "m"
    /\ response' = <<>>
    /\ isLoading' = FALSE
    /\ job' = IdleJob
    /\ lastOp' = Op("done", job.mode, job.code)
    /\ UNCHANGED <<originalCodeForDiff, calls>>
    /\ ResumeFrame

\* generateContent catches the API error and returns the message as text
LlmFail ==
    /\ job.pc = "llm"
    /\ StoreResult(LlmErrorText)

----------------------------------------------------------------------------
(* The other event handlers of CodeAssistant *)

\* variant: the click does not clear the snapshot
ModeButton_KeepsSnapshot(value) ==
    /\ mode' = value
    /\ response' = <<>>
    /\ code' = <<>>
    /\ userInput' = <<>>
    /\ error' = NoError
    /\ switchedSinceSubmit' = TRUE
    /\ lastOp' = Op("modeSwitch", value, <<>>)
    /\ UNCHANGED <<originalCodeForDiff, language, isLoading, job, consoleLog, calls,
                   requestLanguage>>
    /\ UNCHANGED renderVars

\* onClick of ModeButton
ModeButton(value) ==
    /\ mode' = value
    /\ response' = <<>>
    /\ code' = <<>>
    /\ userInput' = <<>>
    /\ error' = NoError
    /\ originalCodeForDiff' = <<>>
    /\ switchedSinceSubmit' = TRUE
    /\ lastOp' = Op("modeSwitch", value, <<>>)
    /\ UNCHANGED <<language, isLoading, job, consoleLog, calls, requestLanguage>>
    /\ UNCHANGED renderVars

EditFrame ==
    /\ UNCHANGED <<response, isLoading, error, originalCodeForDiff, job,
                   consoleLog, calls, switchedSinceSubmit, requestLanguage>>
    /\ UNCHANGED renderVars

\* onChange of the code editor
SetCode(c) ==
    /\ HasCodeEditor(mode)
    /\ c # code
    /\ code' = c
    /\ lastOp' = Op("edit", mode, c)
    /\ UNCHANGED <<mode, language, userInput>>
    /\ EditFrame

\* onChange of the description / URL field
SetUserInput(u) ==
    /\ HasTextField(mode)
    /\ u # userInput
    /\ userInput' = u
    /\ lastOp' = Op("edit", mode, code)
    /\ UNCHANGED <<mode, language, code>>
    /\ EditFrame

\* onChange of the language select
SetLanguage(l) ==
    /\ l # language
    /\ language' = l
    /\ lastOp' = Op("edit", mode, code)
    /\ UNCHANGED <<mode, code, userInput>>
    /\ EditFrame

\* the response pane: the spinner while loading, MarkdownResponse over the
\* response with the snapshot and the current language state, or the
\* placeholder; the value is the element list MarkdownResponse returns
ResponsePane ==
    IF isLoading THEN <<>>
    ELSE IF response # <<>>
    THEN MarkdownResponse(response, originalCodeForDiff, language)
    ELSE <<>>

----------------------------------------------------------------------------
(* Specifications *)

Init == InitAssistant /\ content = <<>> /\ originalCodeProp = <<>>
        /\ languageProp = "JavaScript" /\ rendered = <<>> /\ phase = "rendered"

Next ==
    \/ SubmitInvalid
    \/ SubmitLlm
    \/ \E o \in ExecOutputs : SubmitDebugRuns(o)
    \/ SubmitDebugThrows
    \/ SubmitRepo
    \/ FetchMetaOk
    \/ \E m \in MetaFetchErrors : FetchMetaFail(m)
    \/ FetchContentOk
    \/ \E m \in ContentFetchErrors : FetchContentFail(m)
    \/ \E t \in LlmTexts : LlmReturn(t)
    \/ LlmFail
    \/ \E v \in AiMode : ModeButton(v)
    \/ \E c \in Codes : SetCode(c)
    \/ \E u \in UserInputs : SetUserInput(u)
    \/ \E l \in LangChoices : SetLanguage(l)

\* the assistant session
Spec == Init /\ [][Next]_vars

\* the settling of the external call a pending handleSubmit awaits: the
\* promise of fetch or of generateContent resolves or rejects
Completion ==
    \/ FetchMetaOk
    \/ \E m \in MetaFetchErrors : FetchMetaFail(m)
    \/ FetchContentOk
    \/ \E m \in ContentFetchErrors : FetchContentFail(m)
    \/ \E t \in LlmTexts : LlmReturn(t)
    \/ LlmFail

\* the assistant session in which every awaited external call settles
SpecLive == Init /\ [][Next]_vars /\ WF_vars(Completion)

InitRender == InitProps /\ InitAssistant

NextRender == Render

\* one render of MarkdownResponse over the input sets
SpecRender == InitRender /\ [][NextRender]_vars

----------------------------------------------------------------------------
(* Vocabulary of the properties *)

CodeIdx == {i \in DOMAIN rendered : StartsWith(rendered[i].src, FENCE)}
DiffIdx == {i \in DOMAIN rendered : rendered[i].kind = "diff"}

\* the source substring of every segment, in order
RECURSIVE SegmentSources(_)
SegmentSources(els) ==
    IF els = <<>> THEN <<>>
    ELSE (IF Head(els).kind = "text"
          THEN [k \in DOMAIN Head(els).pieces |-> Head(els).pieces[k].src]
          ELSE <<Head(els).src>>)
         \o SegmentSources(Tail(els))

\* fences as a reader of the document sees them: runs of backticks
TickRuns(s) == {i \in 1..Len(s) : s[i] = TICK /\ (i = 1 \/ s[i - 1] # TICK)}
RunLen(s, i) ==
    LET stop == {j \in i..Len(s) : s[j] # TICK}
    IN (IF stop = {} THEN Len(s) + 1 ELSE MinOf(stop)) - i
OnlyFences(s) == \A i \in TickRuns(s) : RunLen(s, i) = 3
NFences(s) == Cardinality(TickRuns(s))
FenceNo(s, k) ==
    CHOOSE i \in TickRuns(s) : Cardinality({j \in TickRuns(s) : j <= i}) = k

\* the last fence opens a block that is never closed
Unterminated(s) == OnlyFences(s) /\ NFences(s) % 2 = 1

\* the letters that directly follow the fence at o
TagAfter(s, o) ==
    LET stop == {j \in (o + 3)..Len(s) : s[j] \notin Alpha}
    IN SubSeq(s, o + 3, (IF stop = {} THEN Len(s) + 1 ELSE MinOf(stop)) - 1)

\* text, block, text, ..., block, text: every text non-empty, every opening
\* fence followed by a line that holds a non-empty alphabetic tag
WellFormedDoc(s) ==
    /\ Len(s) > 0
    /\ OnlyFences(s)
    /\ NFences(s) >= 2
    /\ NFences(s) % 2 = 0
    /\ s[1] # TICK
    /\ s[Len(s)] # TICK
    /\ \A k \in 1..(NFences(s) \div 2) :
          LET o == FenceNo(s, 2 * k - 1)
              t == TagAfter(s, o)
          IN /\ t # <<>>
             /\ o + 3 + Len(t) < FenceNo(s, 2 * k)
             /\ s[o + 3 + Len(t)] = NL

\* the text between the tag line of block k and its closing fence
BodyOfBlock(s, k) ==
    LET o == FenceNo(s, 2 * k - 1)
    IN SubSeq(s, o + 4 + Len(TagAfter(s, o)), FenceNo(s, 2 * k) - 1)

\* the text before block k + 1 (after block k), k = 0 .. number of blocks
TextAfterBlock(s, k) ==
    LET n == NFences(s) \div 2
        from == IF k = 0 THEN 1 ELSE FenceNo(s, 2 * k) + 3
        to == IF k = n THEN Len(s) ELSE FenceNo(s, 2 * k + 1) - 1
    IN SubSeq(s, from, to)

\* the segments of a well-formed document, with Norm applied to the bodies
FenceSplitting(Norm(_)) ==
    (phase = "rendered" /\ WellFormedDoc(content)) =>
        LET n == NFences(content) \div 2
        IN /\ Len(rendered) = 2 * n + 1
           /\ \A k \in 0..n :
                 /\ rendered[2 * k + 1].kind = "text"
                 /\ rendered[2 * k + 1].src = TextAfterBlock(content, k)
           /\ \A k \in 1..n :
                 LET el == rendered[2 * k]
                     o == FenceNo(content, 2 * k - 1)
                 IN /\ el.kind \in {"code", "diff"}
                    /\ el.src = SubSeq(content, o, FenceNo(content, 2 * k) + 2)
                    /\ el.kind = "code" => el.lang = TagAfter(content, o)
                    /\ el.code = Norm(BodyOfBlock(content, k))

Identity(x) == x

\* the events that are a click on the submit button
SubmitOps == {"submit", "submitInvalid"}
Submitted == lastOp.op \in SubmitOps \/ (lastOp.op = "done" /\ calls.exec = 1 /\ calls.llm = 0)

\* a required input of the mode is empty
RequiredEmpty(m, c, u) ==
    \/ m = "ASSIST" /\ (c = <<>> \/ u = <<>>)
    \/ m = "GENERATE" /\ u = <<>>
    \/ m \in {"DEBUG", "REFACTOR", "REVIEW", "GENERATE_DOCS", "GENERATE_TESTS"} /\ c = <<>>
    \/ m = "ANALYZE_REPO" /\ u = <<>>

\* the messages a mode can answer a submit with
MessagesOf(m) ==
    {ValidationMessage(m, c, u) : c \in Codes, u \in UserInputs} \ {NoError}

----------------------------------------------------------------------------
(* Properties of MarkdownResponse, checked under SpecRender *)

\* C1: with an original snippet present, exactly min(N,1) of the N code
\* segments is rendered as a diff, it is the first code segment, every later
\* one is a plain code block, and with N = 0 the render yields its elements
\* with no diff.
C1_SingleDiff ==
    (phase = "rendered" /\ originalCodeProp # <<>>) =>
        /\ Len(rendered) = Len(Parts(content))
        /\ Cardinality(DiffIdx) = (IF CodeIdx = {} THEN 0 ELSE 1)
        /\ CodeIdx # {} => DiffIdx = {MinOf(CodeIdx)}
        /\ \A i \in CodeIdx \ DiffIdx : rendered[i].kind = "code"

C1_Witness ==
    /\ phase = "rendered"
    /\ originalCodeProp # <<>>
    /\ Cardinality(CodeIdx) >= 2
    /\ MinOf(CodeIdx) > 1
    /\ rendered[MinOf(CodeIdx)].kind = "diff"

\* C2: with no original snippet, no segment is rendered as a diff, however
\* many code segments the response has.
C2_NoOriginalNoDiff ==
    (phase = "rendered" /\ originalCodeProp = <<>>) => DiffIdx = {}

C2_Witness ==
    /\ phase = "rendered"
    /\ originalCodeProp = <<>>
    /\ Cardinality(CodeIdx) >= 2
    /\ \A i \in CodeIdx : rendered[i].kind = "code"

\* C8: the source substrings of all segments (code parts with their fences,
\* and the pieces of every non-code part), concatenated in order, are the input.
C8_RoundTrip ==
    phase = "rendered" => Concat(SegmentSources(rendered)) = content

C8_Witness ==
    /\ phase = "rendered"
    /\ CodeIdx # {}
    /\ \E i \in DOMAIN rendered :
          /\ rendered[i].kind = "text"
          /\ \E k \in DOMAIN rendered[i].pieces : rendered[i].pieces[k].kind = "strong"
    /\ Concat(SegmentSources(rendered)) = content

\* C9: an opening fence with no closing fence yields a code segment that
\* starts at that fence and runs to the end of the input, with the tag after
\* the fence as its language, wherever the fence stands in the input.
C9_UnterminatedFence ==
    (phase = "rendered" /\ Unterminated(content)) =>
        LET o == FenceNo(content, NFences(content))
            last == rendered[Len(rendered)]
        IN /\ last.kind \in {"code", "diff"}
           /\ last.src = SubSeq(content, o, Len(content))
           /\ last.kind = "code" => last.lang = TagAfter(content, o)

\* C10 as stated: text, a terminated block with an alphabetic tag, text
\* yields a non-code segment, a code segment whose language is the tag and
\* whose body is the text between the tag line and the closing fence, and a
\* non-code segment; several blocks yield one code segment each.
C10_FenceSplittingRaw == FenceSplitting(Identity)

\* C10 amended: as above, the body being the text between the tag line and
\* the closing fence with leading and trailing whitespace removed.
C10_FenceSplitting == FenceSplitting(Trim)

C10_Witness ==
    /\ phase = "rendered"
    /\ WellFormedDoc(content)
    /\ NFences(content) = 4
    /\ BodyOfBlock(content, 2) # Trim(BodyOfBlock(content, 2))
    /\ rendered[4].kind = "code"
    /\ rendered[4].code = Trim(BodyOfBlock(content, 2))

----------------------------------------------------------------------------
(* Properties of CodeAssistant, checked under Spec *)

\* C3: a submit with a required input of the current mode empty sets an error
\* message that only this mode produces and performs no external call
\* (no model request, no fetch, no local execution).
C3_ValidationCompleteness ==
    (Submitted /\ RequiredEmpty(mode, code, userInput)) =>
        /\ error \in MessagesOf(mode)
        /\ \A m \in AiMode \ {mode} : error \notin MessagesOf(m)
        /\ calls = NoCalls
        /\ job.pc = "idle"

C3_Witness ==
    /\ lastOp.op = "submitInvalid"
    /\ mode = "ASSIST"
    /\ code # <<>>
    /\ userInput = <<>>
    /\ error # NoError
    /\ calls = NoCalls

\* C4: after a submit that fails validation the busy flag is false, no
\* snapshot is stored, the response is empty, the error holds the message,
\* and no dispatch is pending.
C4_AbortLeavesNothing ==
    (Submitted /\ (RequiredEmpty(mode, code, userInput)
                     \/ (mode = "ANALYZE_REPO" /\ ~GithubMatch(userInput)))) =>
        /\ isLoading = FALSE
        /\ originalCodeForDiff = <<>>
        /\ response = <<>>
        /\ error # NoError
        /\ job = IdleJob

C4_Witness ==
    /\ lastOp.op = "submitInvalid"
    /\ mode = "ANALYZE_REPO"
    /\ userInput = BadUrl
    /\ consoleLog = "capture"
    /\ isLoading = FALSE
    /\ error # NoError

\* C5: when a dispatch completes and stores its response, the snapshot stored
\* with it is the code submitted with the request if the mode at submission
\* is ASSIST, DEBUG or REFACTOR, and absent for every other mode, whatever the
\* code input holds by then.
C5_SnapshotOnCompletion ==
    lastOp.op = "done" =>
        /\ lastOp.mode \in {"ASSIST", "DEBUG", "REFACTOR"} =>
              originalCodeForDiff = lastOp.code /\ lastOp.code # <<>>
        /\ lastOp.mode \notin {"ASSIST", "DEBUG", "REFACTOR"} =>
              originalCodeForDiff = <<>>

C5_Witness ==
    /\ lastOp.op = "done"
    /\ lastOp.mode = "REFACTOR"
    /\ mode = "REFACTOR"
    /\ code # lastOp.code
    /\ code # <<>>
    /\ originalCodeForDiff = lastOp.code
    /\ response # <<>>

\* C6: a click on a mode button leaves the code input, the description/URL
\* input and the response empty, the error null and the snapshot absent, and
\* makes the clicked mode current, in any state.
C6_ModeSwitchClears ==
    lastOp.op = "modeSwitch" =>
        /\ code = <<>>
        /\ userInput = <<>>
        /\ response = <<>>
        /\ error = NoError
        /\ originalCodeForDiff = <<>>
        /\ mode = lastOp.mode

C6_Witness ==
    /\ lastOp.op = "modeSwitch"
    /\ isLoading = TRUE
    /\ job.pc = "llm"
    /\ job.mode # mode
    /\ job.originalCode # <<>>
    /\ code = <<>>

\* C7: after a mode switch and before the next submission, no snapshot and no
\* response of a dispatch submitted before the switch is present.
C7_NothingOutlivesSwitch ==
    switchedSinceSubmit => (response = <<>> /\ originalCodeForDiff = <<>>)

----------------------------------------------------------------------------
(* Vocabulary of the properties of the sub-segmentation *)

\* the pieces of all non-code parts, in document order
AllPieces == Concat([i \in DOMAIN rendered |-> rendered[i].pieces])

\* a chunk with no fence character and no emphasis marker
PlainChunk(s) ==
    /\ Len(s) > 0
    /\ \A i \in 1..Len(s) : s[i] # TICK /\ ~StarsAt(s, i)

\* a line that begins, after leading whitespace, with a bullet marker
BulletLine(l) ==
    LET t == Trim(l)
    IN Len(t) >= 2 /\ t[1] \in {STAR, DASH} /\ t[2] = SP

\* the line with its marker stripped and outer whitespace trimmed
ItemText(l) == Trim(SubSeq(Trim(l), 3, Len(Trim(l))))

\* the item lists of the maximal runs of consecutive bullet lines
RECURSIVE BulletRuns(_, _)
BulletRuns(lines, cur) ==
    LET flush == IF cur = <<>> THEN <<>> ELSE <<cur>>
    IN IF lines = <<>> THEN flush
       ELSE IF BulletLine(Head(lines))
       THEN BulletRuns(Tail(lines), Append(cur, ItemText(Head(lines))))
       ELSE flush \o BulletRuns(Tail(lines), <<>>)

\* the item lists of the lists that are rendered
RenderedLists ==
    LET uls == SelectSeq(AllPieces, LAMBDA p : p.kind = "ul")
    IN [i \in DOMAIN uls |-> uls[i].items]

\* the line is shown as prose: it is a line of the text of some span
ShownAsProse(l) ==
    \E k \in DOMAIN AllPieces :
        /\ AllPieces[k].kind = "span"
        /\ \E n \in DOMAIN SplitLines(AllPieces[k].text) :
              Trim(SplitLines(AllPieces[k].text)[n]) = Trim(l)

\* catalog lookup ignoring case, as a reader states it
ToUpperChar(c) ==
    IF \E i \in DOMAIN LowerLetters : LowerLetters[i] = c
    THEN UpperLetters[CHOOSE i \in DOMAIN LowerLetters : LowerLetters[i] = c]
    ELSE c
SameIgnoringCase(a, b) ==
    /\ Len(a) = Len(b)
    /\ \A i \in 1..Len(a) : ToUpperChar(a[i]) = ToUpperChar(b[i])
CatalogEntries(tag) ==
    {l \in DOMAIN Spelling : SameIgnoringCase(Spelling[l], tag)}
ExpectedLanguage(tag) ==
    IF CatalogEntries(tag) = {} THEN "JavaScript"
    ELSE CHOOSE l \in CatalogEntries(tag) : TRUE

\* a fenced block whose opening fence is directly followed by the closing one
EmptyBlocks ==
    {FENCE \o FENCE, FENCE \o <<NL>> \o FENCE}
    \cup {FENCE \o t \o <<NL>> \o FENCE : t \in Tags \cup {<<"a">>}}

----------------------------------------------------------------------------
(* Properties of the sub-segmentation, checked under SpecRender *)

\* C11: in a non-code chunk every maximal run of consecutive bullet lines is
\* one list with one item per line (marker stripped, trimmed), wherever the
\* run sits, and every other non-blank line of the chunk is shown as prose.
C11_ListSegmentation ==
    (phase = "rendered" /\ PlainChunk(content)) =>
        /\ RenderedLists = BulletRuns(SplitLines(content), <<>>)
        /\ \A n \in DOMAIN SplitLines(content) :
              LET l == SplitLines(content)[n]
              IN (~BulletLine(l) /\ Trim(l) # <<>>) => ShownAsProse(l)

\* C12: every piece the emphasis pattern matched is an emphasis run with its
\* markers removed, and every other piece (one that holds an unmatched pair
\* of stars included) is plain text with its characters preserved.
C12_EmphasisRuns ==
    phase = "rendered" =>
        \A i \in DOMAIN rendered :
            \A k \in DOMAIN rendered[i].pieces :
                LET p == rendered[i].pieces[k]
                IN /\ k % 2 = 0 =>
                         /\ p.kind = "strong"
                         /\ p.text = SubSeq(p.src, 3, Len(p.src) - 2)
                   /\ (k % 2 = 1 /\ ~BulletLine(p.src)) =>
                         /\ p.kind = "span"
                         /\ p.text = p.src

C20_EmptyEdges ==
    phase = "rendered" =>
        /\ content = <<>> => rendered = <<>>
        /\ content \in EmptyBlocks =>
              /\ Len(rendered) = 1
              /\ rendered[1].kind \in {"code", "diff"}
              /\ rendered[1].src = content
              /\ rendered[1].code = <<>>
        /\ WellFormedDoc(content) =>
              \A k \in 1..(NFences(content) \div 2) :
                  BodyOfBlock(content, k) = <<>> =>
                      /\ rendered[2 * k].kind \in {"code", "diff"}
                      /\ rendered[2 * k].code = <<>>

C20_Witness ==
    /\ phase = "rendered"
    /\ content = FENCE \o FENCE
    /\ originalCodeProp = <<>>
    /\ Len(rendered) = 1
    /\ rendered[1].kind = "code"
    /\ rendered[1].code = <<>>

----------------------------------------------------------------------------
(* Properties of a dispatch, checked under Spec *)

\* the identity of a pending dispatch: what its closure captured
SameDispatch(j, k) ==
    /\ j.mode = k.mode
    /\ j.code = k.code
    /\ j.originalCode = k.originalCode

\* URL inputs without the two path segments after the host
NonMatchingUrls == {BadUrl, OwnerOnlyUrl}

InvalidUrlMessage ==
    "Invalid GitHub repository URL. Use format: https://github.com/owner/repo"

\* the texts the request executor returns for a failed call
FailureTexts == {LlmErrorText}

\* C13: the busy flag is true exactly while a dispatch is pending, and a step
\* taken while it is true never starts a dispatch: it is no submission, the
\* calls of the pending dispatch are not reset, and the pending dispatch
\* either stays the same one or finishes; a mode switch changes none of it.
C13_OneDispatch ==
    /\ [](isLoading <=> job.pc # "idle")
    /\ [][isLoading =>
             /\ lastOp'.op \notin SubmitOps
             /\ calls'.llm >= calls.llm
             /\ calls'.fetch >= calls.fetch
             /\ calls'.exec = calls.exec
             /\ \/ isLoading' /\ SameDispatch(job', job)
                \/ ~isLoading' /\ job' = IdleJob]_vars

C13_Witness ==
    /\ isLoading
    /\ switchedSinceSubmit
    /\ lastOp.op = "fetched"
    /\ job.pc = "fetchContent"
    /\ mode # job.mode

\* C14: a submit in ANALYZE_REPO mode with a non-empty input that lacks
\* github.com/<owner>/<repo> sets the invalid-URL message and issues no fetch
\* and no model request; a submit that issued a fetch had a matching input.
C14_PatternMismatch ==
    /\ (Submitted /\ mode = "ANALYZE_REPO" /\ userInput \in NonMatchingUrls) =>
           /\ error = InvalidUrlMessage
           /\ calls = NoCalls
           /\ job.pc = "idle"
    /\ (Submitted /\ calls.fetch > 0) =>
           /\ mode = "ANALYZE_REPO"
           /\ userInput = GoodUrl
    /\ job.pc \in {"fetchMeta", "fetchContent"} => job.mode = "ANALYZE_REPO"

C14_Witness ==
    /\ lastOp.op = "submitInvalid"
    /\ mode = "ANALYZE_REPO"
    /\ userInput = OwnerOnlyUrl
    /\ error = InvalidUrlMessage
    /\ calls = NoCalls

\* C15: while the metadata fetch is pending one fetch and no model request
\* was issued; while the content fetch is pending two fetches and no model
\* request; a model request of a repository dispatch comes after both
\* fetches; after a failed fetch the error is the message of the fetch that
\* failed, no model request was issued, the response is empty and the busy
\* flag is false.
C15_FetchOrdering ==
    /\ job.pc = "fetchMeta" => (calls.fetch = 1 /\ calls.llm = 0)
    /\ job.pc = "fetchContent" =>
           (calls.fetch = 2 /\ calls.llm = 0 /\ lastOp.op # "submit")
    /\ (calls.fetch > 0 /\ calls.llm > 0) => calls.fetch = 2
    /\ lastOp.op = "fetchFailed" =>
           /\ calls.fetch = 1 => error \in MetaFetchErrors
           /\ calls.fetch = 2 => error \in ContentFetchErrors
           /\ calls.fetch \in {1, 2}
           /\ calls.llm = 0
           /\ response = <<>>
           /\ isLoading = FALSE
           /\ job.pc = "idle"

C15_Witness ==
    /\ lastOp.op = "fetchFailed"
    /\ calls.fetch = 2
    /\ error = "Failed to download README content."
    /\ response = <<>>
    /\ isLoading = FALSE

\* C16: a dispatch issues at most one model request, and the step that ends
\* a pending model request, failed or not, leaves the error as it was and
\* stores a text the request executor returned as the response.
C16_FailureIsResult ==
    /\ [](calls.llm <= 1)
    /\ [][(job.pc = "llm" /\ job'.pc # "llm") =>
             /\ error' = error
             /\ response' \in LlmTexts \cup FailureTexts
             /\ lastOp'.op = "done"
             /\ isLoading' = FALSE]_vars

C16_Witness ==
    /\ lastOp.op = "done"
    /\ response = LlmErrorText
    /\ error = NoError
    /\ calls.llm = 1
    /\ isLoading = FALSE

\* C17: whenever a snapshot is present the response is non-empty and is not
\* a failure message of the request executor.
C17_NeverPartial ==
    originalCodeForDiff # <<>> =>
        (response # <<>> /\ response \notin FailureTexts)

\* C18: every diff the response pane shows is given the language that was
\* selected when the request was built.
C18_DiffLanguage ==
    \A i \in DOMAIN ResponsePane :
        ResponsePane[i].kind = "diff" =>
            ResponsePane[i].language = requestLanguage

\* C21: an error message and a non-empty response are never both present.
C21_ErrorExcludesResponse ==
    ~(error # NoError /\ response # <<>>)

C21_Witness ==
    /\ lastOp.op = "fetchFailed"
    /\ switchedSinceSubmit
    /\ error \in MetaFetchErrors
    /\ response = <<>>
    /\ consoleLog = "capture"

\* C22: provided every awaited external call settles, a pending dispatch
\* leads to a state with no dispatch pending and the busy flag false,
\* whatever is clicked or typed meanwhile; and the busy flag is never true
\* while no dispatch is pending.
C22_DispatchFinishes ==
    /\ (job.pc # "idle") ~> (job.pc = "idle" /\ isLoading = FALSE)
    /\ isLoading ~> ~isLoading
    /\ [](job.pc = "idle" => isLoading = FALSE)

C22_Witness ==
    /\ lastOp.op = "done"
    /\ lastOp.mode = "ANALYZE_REPO"
    /\ switchedSinceSubmit
    /\ calls.fetch = 2
    /\ calls.llm = 1
    /\ job.pc = "idle"
    /\ isLoading = FALSE

\* C23: console.log is bound to the host function in every state: after a
\* DEBUG dispatch with JavaScript, whether the submitted code ran to the end
\* or threw, the capturing replacement is not left installed.
C23_ConsoleRestored ==
    consoleLog = "host"

----------------------------------------------------------------------------
(* Properties of the catalog tags, checked under SpecRender *)

\* C24: for every language of the catalog, a response that is one block
\* fenced with the lowercase label renders as one code segment whose body
\* is the block's body, with no character of the tag in it, and whose
\* declared language, when it is a plain code block, is the whole label.
C24_CatalogTags ==
    phase = "rendered" =>
        \A i \in DOMAIN LANGUAGES :
            content = BlockOf(PromptTag(LANGUAGES[i]), <<"a">>) =>
                /\ Len(rendered) = 1
                /\ rendered[1].kind \in {"code", "diff"}
                /\ rendered[1].code = <<"a">>
                /\ rendered[1].kind = "code" =>
                       rendered[1].lang = PromptTag(LANGUAGES[i])

====
